---- MODULE Spec2Model ----
(***************************************************************************)
(* nodlite: a directed graph kept in an SQLite file behind one worker      *)
(* thread (GraphMultithread) that drains a shared FIFO queue of commands.  *)
(* The model has the store (the two tables in rowid order), the request    *)
(* queue, the per-select result queues, the worker and the caller threads, *)
(* each caller being a Graph method in progress: a list of the             *)
(* conn.execute / conn.select calls the method still has to make.          *)
(***************************************************************************)
EXTENDS Integers, Sequences, FiniteSets, TLC

\* ---------------------------------------------------------------- bounds
NThreads == 2
NKeys == 2
NAttrNames == 2
MaxCalls == 2
MaxSeqCalls == 3
MaxPairs == 1
MaxTargets == 2
MaxSharedTargets == 1
MaxBulkKeys == 2
MaxBatch == 2
MaxPage == 2
MaxLazyCalls == 3

Threads == 1..NThreads
Keys == 1..NKeys
\* a key of a type sqlite3 cannot bind (a list, a dict): cursor.execute raises
BadKey == 0
\* Queue(): maxsize 0, a queue without bound
QueueMaxSize == 0
AnyKey == Keys \cup {BadKey}
AttrNames == 1..NAttrNames
\* attribute mappings (**attributes): name -> value, one value per name
AttrMaps == UNION {[D -> {1}] : D \in SUBSET AttrNames}
EmptyMap == [n \in {} |-> 1]

\* ---------------------------------------------------------------- helpers
Range(s) == {s[i] : i \in 1..Len(s)}

RECURSIVE Filter(_, _)
\* the subsequence of s whose positions are in the set keep
Filter(s, keep) ==
    IF s = <<>> THEN <<>>
    ELSE LET n == Len(s)
             front == Filter(SubSeq(s, 1, n - 1), keep)
         IN IF n \in keep THEN Append(front, s[n]) ELSE front

Min(a, b) == IF a < b THEN a ELSE b

\* ---------------------------------------------------------------- codec
NULL == <<>>

encode(obj) == <<"pickle", obj>>

zip_encode(obj) == <<"zlib", <<"pickle", obj>>>>

\* loads(bytes(obj)): [ok, val]; bytes(None) raises TypeError, and pickle
\* cannot load a zlib stream
decode(obj) ==
    IF obj = NULL THEN [ok |-> FALSE, val |-> EmptyMap]
    ELSE IF obj[1] = "pickle" THEN [ok |-> TRUE, val |-> obj[2]]
    ELSE [ok |-> FALSE, val |-> EmptyMap]

zip_decode(obj) ==
    IF obj = NULL THEN [ok |-> FALSE, val |-> EmptyMap]
    ELSE IF obj[1] = "zlib" THEN [ok |-> TRUE, val |-> obj[2][2]]
    ELSE [ok |-> FALSE, val |-> EmptyMap]

Encode(z, obj) == IF z THEN zip_encode(obj) ELSE encode(obj)
Decode(z, obj) == IF z THEN zip_decode(obj) ELSE decode(obj)

\* ---------------------------------------------------------------- SQL
\* A table is the sequence of its rows in rowid order: a new row gets the
\* largest rowid, a deleted row leaves the order of the others alone.
\* nodes rows: <<key, attributes>>; edges rows: <<source, target>>.

NodeKeys(N) == {N[i][1] : i \in 1..Len(N)}

Stmt(sql, nph, arg) ==
    [sql |-> sql, nph |-> nph, arg |-> arg, lim |-> 0, off |-> 0]

PageStmt(sql, lim, off) ==
    [sql |-> sql, nph |-> 0, arg |-> <<>>, lim |-> lim, off |-> off]

\* positions of arg holding keys (the others hold an encoded blob or a number)
KeyPositions(st) ==
    IF st.sql = "REPLACE_NODE" THEN {1} \cap (1..Len(st.arg))
    ELSE IF st.sql = "DEL_EDGES_TGT" THEN {1} \cap (1..Len(st.arg))
    ELSE 1..Len(st.arg)

\* cursor.execute(req, arg) raises: wrong number of bindings, or a value of
\* an unsupported type
Raises(st) ==
    \/ Len(st.arg) # st.nph
    \/ \E i \in KeyPositions(st) : st.arg[i] = BadKey

RECURSIVE InsertOrReplaceNodes(_, _)
\* INSERT OR REPLACE in place of INSERT OR IGNORE: an existing key is
\* rewritten without attributes at the end of the table
InsertOrReplaceNodes(N, keys) ==
    IF keys = <<>> THEN N
    ELSE LET k == Head(keys)
             kept == SelectSeq(N, LAMBDA r : r[1] # k)
         IN InsertOrReplaceNodes(Append(kept, <<k, <<>>>>), Tail(keys))

RECURSIVE InsertOrIgnoreNodes(_, _)
\* INSERT OR IGNORE INTO "nodes" (key) VALUES (?), (?), ...
InsertOrIgnoreNodes(N, keys) ==
    IF keys = <<>> THEN N
    ELSE LET k == Head(keys)
             N1 == IF k \in NodeKeys(N) THEN N ELSE Append(N, <<k, NULL>>)
         IN InsertOrIgnoreNodes(N1, Tail(keys))

\* REPLACE INTO "nodes" (key, attributes) VALUES (?,?): the UNIQUE conflict
\* deletes the old row, the new row goes to the end
ReplaceNode(N, k, blob) ==
    Append(Filter(N, {i \in 1..Len(N) : N[i][1] # k}), <<k, blob>>)

RECURSIVE InsertEdgesUniqueSource(_, _)
\* UNIQUE(source) in place of UNIQUE(source, target): a second edge out
\* of the same source is ignored
InsertEdgesUniqueSource(E, flat) ==
    IF Len(flat) < 2 THEN E
    ELSE LET e == <<flat[1], flat[2]>>
             E1 == IF \E x \in Range(E) : x[1] = e[1] THEN E
                   ELSE Append(E, e)
         IN InsertEdgesUniqueSource(E1, SubSeq(flat, 3, Len(flat)))

RECURSIVE InsertOrIgnoreEdges(_, _)
\* INSERT OR IGNORE INTO "edges" (source, target) VALUES (?, ?), ...
\* over the flat list s1, t1, s2, t2, ...; UNIQUE(source, target) ON
\* CONFLICT IGNORE; the declared foreign keys are not enforced
InsertOrIgnoreEdges(E, flat) ==
    IF Len(flat) < 2 THEN E
    ELSE LET e == <<flat[1], flat[2]>>
             E1 == IF e \in Range(E) THEN E ELSE Append(E, e)
         IN InsertOrIgnoreEdges(E1, SubSeq(flat, 3, Len(flat)))

DeleteEdges(E, drop) == Filter(E, {i \in 1..Len(E) : i \notin drop})

\* LIMIT lim OFFSET off over rows in rowid order
Page(rows, lim, off) == SubSeq(rows, off + 1, Min(Len(rows), off + lim))

\* the rows a SELECT returns (cursor.fetchall())
Rows(st, N, E) ==
    LET a == st.arg
        EdgeIdx(P(_)) == {i \in 1..Len(E) : P(E[i])}
        half == Len(a) \div 2
    IN CASE st.sql = "GET_N_NODES" -> << <<Len(N)>> >>
         [] st.sql = "GET_N_EDGES" -> << <<Len(E)>> >>
         [] st.sql = "GET_NODE" ->
                Filter(N, {i \in 1..Len(N) : N[i][1] = a[1]})
         [] st.sql = "GET_NODE_KEY" ->
                LET hit == Filter(N, {i \in 1..Len(N) : N[i][1] = a[1]})
                IN [i \in 1..Len(hit) |-> <<hit[i][1]>>]
         [] st.sql = "GET_EDGE" ->
                LET P(e) == e[1] = a[1] /\ e[2] = a[2]
                IN << <<Cardinality(EdgeIdx(P))>> >>
         [] st.sql = "GET_NEIGHBORS" ->
                LET P(e) == e[1] = a[1]
                    hit == Filter(E, EdgeIdx(P))
                IN [i \in 1..Len(hit) |-> <<hit[i][2]>>]
         [] st.sql = "GET_PREDECESSORS" ->
                LET P(e) == e[2] = a[1]
                    hit == Filter(E, EdgeIdx(P))
                IN [i \in 1..Len(hit) |-> <<hit[i][1]>>]
         [] st.sql = "GET_SUBGRAPH" ->
                LET P(e) == /\ e[1] \in {a[i] : i \in 1..half}
                            /\ e[2] \in {a[i] : i \in (half + 1)..Len(a)}
                IN Filter(E, EdgeIdx(P))
         [] st.sql = "GET_DEGREE" ->
                LET P(e) == e[1] = a[1]
                IN << <<Cardinality(EdgeIdx(P))>> >>
         [] st.sql = "GET_NODES" -> N
         [] st.sql = "GET_EDGES" -> E
         [] st.sql = "GET_NODES_PAGE" ->
                LET pg == Page(N, st.lim, st.off)
                IN [i \in 1..Len(pg) |-> <<pg[i][1]>>]
         [] st.sql = "GET_EDGES_PAGE" -> Page(E, st.lim, st.off)
         [] OTHER -> <<>>

\* the nodes table after cursor.execute(req, arg) did not raise
NodesAfter(st, N) ==
    LET a == st.arg
    IN CASE st.sql = "ADD_NODE" -> InsertOrIgnoreNodes(N, a)
         [] st.sql = "ADD_NODES" -> InsertOrIgnoreNodes(N, a)
         [] st.sql = "REPLACE_NODE" -> ReplaceNode(N, a[1], a[2])
         [] st.sql = "ADD_ITEM" -> ReplaceNode(N, a[1], NULL)
         [] st.sql = "DEL_NODE" ->
                Filter(N, {i \in 1..Len(N) : N[i][1] # a[1]})
         [] st.sql = "CLEAR_NODES" -> <<>>
         [] OTHER -> N

\* the edges table after cursor.execute(req, arg) did not raise
EdgesAfter(st, E) ==
    LET a == st.arg
    IN CASE st.sql = "ADD_EDGE" -> InsertOrIgnoreEdges(E, a)
         [] st.sql = "ADD_EDGES" -> InsertOrIgnoreEdges(E, a)
         [] st.sql = "DEL_EDGES" ->
                DeleteEdges(E, {i \in 1..Len(E) :
                                  E[i][1] = a[1] \/ E[i][2] = a[2]})
         [] st.sql = "DEL_EDGE" ->
                DeleteEdges(E, {i \in 1..Len(E) :
                                  E[i][1] = a[1] /\ E[i][2] = a[2]})
         [] st.sql = "DEL_EDGES_SRC" ->
                DeleteEdges(E, {i \in 1..Len(E) : E[i][1] = a[1]})
         [] st.sql = "DEL_EDGES_TGT" ->
                DeleteEdges(E, {i \in 1..Len(E) : E[i][2] = a[1]})
         [] st.sql = "CLEAR_EDGES" -> <<>>
         [] OTHER -> E

\* ---------------------------------------------------------------- state
VARIABLES
    zip,      \* Graph(zip=...): the codec of this store
    nodes,    \* table "nodes" in rowid order
    edges,    \* table "edges" in rowid order
    reqs,     \* GraphMultithread.reqs, the shared request queue
    chan,     \* the result queues of the selects in progress
    worker,   \* the worker thread: "running", "crashed" or "closed"
    pc,       \* per caller: "idle", "run" (between two puts), "recv"
    cur,      \* per caller: the Graph method in progress
    todo,     \* per caller: the conn calls the method still has to make
    ch,       \* per caller: the result queue it is reading
    got,      \* per caller: rows taken from that queue so far
    ret,      \* per caller: what its last finished method got back
    ncalls,   \* number of methods called so far
    callers,  \* the threads that use the store
    budget,   \* total number of method calls this run makes
    failed,   \* the commands whose execution raised
    waited,   \* per caller: whose commands were queued before its COMMIT
    shadow,   \* the store with every command applied when it was put
    expect,   \* per result queue: what the shadow store answers
    sent,     \* per result queue: everything the worker put on it
    pre,      \* the store when the worker began the method it is applying
    app,      \* the method whose last statement the worker has applied
    gen       \* per caller: the generator of a lazy read it holds

vars == <<zip, nodes, edges, reqs, chan, worker, pc, cur, todo, ch, got,
          ret, ncalls, callers, budget, failed, waited, shadow, expect, sent,
          pre, app, gen>>

END == [end |-> TRUE, rec |-> <<>>]
Row(r) == [end |-> FALSE, rec |-> r]

NoCall == [op |-> "none", args |-> <<>>]
NoRet == [rows |-> <<>>, op |-> "none", args |-> <<>>, stop |-> FALSE]
NoQueues == [c \in {} |-> <<>>]

\* no generator held; of a generator: phase ("new" before the first
\* next(), "open" after it, "done" at StopIteration, "dropped" when the
\* caller let go of it), the statement, the result queue, the rows handed
\* out, and what the statement returns on the queued commands when the
\* method is called (born) and at the first next() (at)
NoGen == [st |-> Stmt("NONE", 0, <<>>), rows |-> <<>>, phase |-> "none",
          call |-> NoCall, q |-> 0, born |-> <<>>, at |-> <<>>, left |-> 0]

\* one conn.execute (k = "exec"), next(conn.select) (k = "next") or
\* for .. in conn.select (k = "all", and k = "nodes" for the loop of
\* Graph.nodes) of a method; first / last mark the first and the last
\* statement of the method that writes
W(st, first, last) == [st |-> st, k |-> "exec", first |-> first, last |-> last]
R(k, st) == [st |-> st, k |-> k, first |-> FALSE, last |-> FALSE]

InitWith(zs, cs, b) ==
    /\ zip \in zs
    /\ nodes = <<>>
    /\ edges = <<>>
    /\ reqs = <<>>
    /\ chan = NoQueues
    /\ worker = "running"
    /\ pc = [t \in Threads |-> "idle"]
    /\ cur = [t \in Threads |-> NoCall]
    /\ todo = [t \in Threads |-> <<>>]
    /\ ch = [t \in Threads |-> 0]
    /\ got = [t \in Threads |-> <<>>]
    /\ ret = [t \in Threads |-> NoRet]
    /\ ncalls = 0
    /\ callers = cs
    /\ budget = b
    /\ failed = {}
    /\ waited = [t \in Threads |-> {}]
    /\ shadow = [ok |-> TRUE, nodes |-> <<>>, edges |-> <<>>]
    /\ expect = NoQueues
    /\ sent = NoQueues
    /\ pre = [nodes |-> <<>>, edges |-> <<>>]
    /\ app = NoCall
    /\ gen = [t \in Threads |-> NoGen]

\* Graph(filename) on a new file, shared by NThreads threads
Init == InitWith({FALSE}, Threads, MaxCalls)

\* Graph(filename, zip=...) on a new file, used by one thread
InitSeq == InitWith(BOOLEAN, {1}, MaxSeqCalls)

\* ---------------------------------------------------------------- worker
\* the store a command leaves when it is applied to s (no change when it
\* raises, for COMMIT under isolation_level=None, and for CLOSE)
Apply(st, s) ==
    IF ~s.ok THEN s
    ELSE IF st.sql = "CLOSE" \/ (st.sql # "COMMIT" /\ Raises(st))
         THEN [s EXCEPT !.ok = FALSE]
    ELSE IF st.sql = "COMMIT" THEN s
    ELSE [s EXCEPT !.nodes = NodesAfter(st, s.nodes),
                   !.edges = EdgesAfter(st, s.edges)]

\* what the worker puts on the result queue of a command it executes
Answer(st, N, E) ==
    IF st.sql = "COMMIT" THEN <<END>>
    ELSE LET rows == Rows(st, N, E)
         IN [i \in 1..Len(rows) |-> Row(rows[i])] \o <<END>>

\* Queue(1) in place of Queue(): res.put waits for room in a queue that
\* holds one item
PutBlocksAtOne(q, out) == Len(q) + Len(out) > 1

\* res.put(rec) waits while the result queue is full: never, for Queue()
PutBlocks(q, out) == QueueMaxSize > 0 /\ Len(q) + Len(out) > QueueMaxSize

\* self.reqs.get(): the command the worker takes, and what stays queued
NextReq(q) == Head(q)
RestReqs(q) == Tail(q)

\* one turn of the loop of GraphMultithread.run
Run ==
    /\ worker = "running"
    /\ reqs # <<>>
    /\ LET c == NextReq(reqs)
           st == c.st
           raises == st.sql \notin {"COMMIT", "CLOSE"} /\ Raises(st)
           runs == st.sql \notin {"COMMIT", "CLOSE"} /\ ~raises
           N1 == IF runs THEN NodesAfter(st, nodes) ELSE nodes
           E1 == IF runs THEN EdgesAfter(st, edges) ELSE edges
           out == IF c.res # 0 /\ st.sql # "CLOSE" /\ ~raises
                  THEN Answer(st, N1, E1) ELSE <<>>
       IN /\ IF c.res = 0 THEN TRUE ELSE ~PutBlocks(chan[c.res], out)
          /\ reqs' = RestReqs(reqs)
          /\ worker' = IF st.sql = "CLOSE" THEN "closed"
                       ELSE IF raises THEN "crashed" ELSE "running"
          /\ nodes' = N1
          /\ edges' = E1
          /\ chan' = IF c.res = 0 THEN chan
                     ELSE [chan EXCEPT ![c.res] = @ \o out]
          /\ sent' = IF c.res = 0 THEN sent
                     ELSE [sent EXCEPT ![c.res] = @ \o out]
          /\ failed' = IF raises THEN failed \cup {[st |-> st, res |-> c.res]}
                       ELSE failed
          /\ pre' = IF c.first THEN [nodes |-> nodes, edges |-> edges]
                    ELSE pre
          /\ app' = IF raises THEN NoCall
                    ELSE IF c.last THEN c.call
                    ELSE IF c.first \/ (runs /\ c.res = 0) THEN NoCall
                    ELSE app
    /\ UNCHANGED <<zip, pc, cur, todo, ch, got, ret, ncalls, callers, budget,
                   waited, shadow, expect, gen>>

\* ---------------------------------------------------------------- callers
\* a LifoQueue in place of the Queue: the newest command is taken first
PutLifo(q, cmd) == <<cmd>> \o q

\* self.reqs.put(cmd)
Put(q, cmd) == Append(q, cmd)

\* one result queue for every select
OneQueue == CHOOSE n \in {1} : TRUE

\* a result queue not in use
FreshQueue ==
    CHOOSE n \in 1..(Cardinality(DOMAIN chan) + 1) : n \notin DOMAIN chan

With(f, c, v) == [x \in DOMAIN f \cup {c} |-> IF x = c THEN v ELSE f[x]]
Without(f, c) == [x \in DOMAIN f \ {c} |-> f[x]]

\* reqs as a new command finds it: the commands queued before a COMMIT
\* are marked as the ones its caller waits for
Queued(t, st) ==
    IF st.sql = "COMMIT"
    THEN [i \in 1..Len(reqs) |-> [reqs[i] EXCEPT !.owes = @ \cup {t}]]
    ELSE reqs

\* the threads with a command in reqs
Ahead(st) ==
    IF st.sql = "COMMIT" THEN {reqs[i].by : i \in 1..Len(reqs)} ELSE {}

\* the method returns (or raises) to its caller
Finish(t, call, rows, stop) ==
    /\ pc' = [pc EXCEPT ![t] = "idle"]
    /\ ret' = [ret EXCEPT ![t] = [rows |-> rows, op |-> call.op,
                                  args |-> call.args, stop |-> stop]]
    /\ cur' = [cur EXCEPT ![t] = NoCall]

\* GraphMultithread.execute(req, arg): fire and forget
Execute(t, call, steps) ==
    LET step == Head(steps)
    IN /\ step.k = "exec"
       /\ reqs' = Put(Queued(t, step.st),
                      [st |-> step.st, call |-> call,
                       first |-> step.first, last |-> step.last,
                       res |-> 0, owes |-> {}, by |-> t])
       /\ shadow' = Apply(step.st, shadow)
       /\ todo' = [todo EXCEPT ![t] = Tail(steps)]
       /\ IF Tail(steps) = <<>>
          THEN Finish(t, call, <<>>, FALSE)
          ELSE /\ pc' = [pc EXCEPT ![t] = "run"]
               /\ cur' = [cur EXCEPT ![t] = call]
               /\ ret' = ret
       /\ waited' = [waited EXCEPT ![t] = Ahead(step.st)]
       /\ UNCHANGED <<chan, sent, expect, ch, got>>

\* GraphMultithread.select(req, arg) up to its first res.get(): a new
\* result queue, and the command put on reqs with it
Select(t, call, steps) ==
    LET step == Head(steps)
        st == step.st
        s1 == Apply(st, shadow)
        c == FreshQueue
    IN /\ step.k \in {"next", "all", "nodes"}
       /\ chan' = With(chan, c, <<>>)
       /\ sent' = With(sent, c, <<>>)
       /\ expect' = With(expect, c, IF s1.ok
                                    THEN Answer(st, s1.nodes, s1.edges)
                                    ELSE <<>>)
       /\ reqs' = Put(Queued(t, st),
                      [st |-> st, call |-> call, first |-> FALSE,
                       last |-> FALSE, res |-> c, owes |-> {}, by |-> t])
       /\ waited' = [waited EXCEPT ![t] = Ahead(st)]
       /\ shadow' = s1
       /\ ch' = [ch EXCEPT ![t] = c]
       /\ todo' = [todo EXCEPT ![t] = steps]
       /\ pc' = [pc EXCEPT ![t] = "recv"]
       /\ cur' = [cur EXCEPT ![t] = call]
       /\ got' = [got EXCEPT ![t] = <<>>]
       /\ ret' = ret

\* the next conn call of a method
Issue(t, call, steps) == Execute(t, call, steps) \/ Select(t, call, steps)

\* a caller enters a Graph method and makes its first conn call; a method
\* that makes none returns
Start(t, op, args, steps) ==
    /\ t \in callers
    /\ pc[t] = "idle"
    /\ ncalls < budget
    /\ ncalls' = ncalls + 1
    /\ IF steps = <<>>
       THEN /\ ret' = [ret EXCEPT ![t] = [rows |-> <<>>, op |-> op,
                                          args |-> args, stop |-> FALSE]]
            /\ UNCHANGED <<reqs, shadow, todo, pc, cur, chan, sent, expect,
                           ch, got, waited>>
       ELSE Issue(t, [op |-> op, args |-> args], steps)
    /\ UNCHANGED <<zip, nodes, edges, worker, callers, budget, failed, pre,
                   app, gen>>

\* the method in progress makes its next conn call
Continue(t) ==
    /\ pc[t] = "run"
    /\ Issue(t, cur[t], todo[t])
    /\ UNCHANGED <<zip, nodes, edges, worker, ncalls, callers, budget,
                   failed, pre, app, gen>>

\* rec = res.get() in GraphMultithread.select, and what the consumer of
\* the generator does with it: next() takes one row and drops the
\* generator (and its queue with it), a for loop goes on to Action.END,
\* and the loop of Graph.nodes ends at a row without attributes, where
\* decode(None) raises
Get(t) ==
    /\ pc[t] = "recv"
    /\ chan[ch[t]] # <<>>
    /\ LET m == Head(chan[ch[t]])
           step == Head(todo[t])
           over == \/ m.end
                   \/ step.k = "next"
                   \/ step.k = "nodes" /\ m.rec[2] = NULL
           rows == IF m.end THEN got[t] ELSE Append(got[t], m.rec)
           stop == m.end /\ step.k = "next"
       IN IF ~over
          THEN /\ chan' = [chan EXCEPT ![ch[t]] = Tail(@)]
               /\ got' = [got EXCEPT ![t] = rows]
               /\ UNCHANGED <<pc, todo, ret, cur, ch, sent, expect>>
          ELSE /\ chan' = Without(chan, ch[t])
               /\ sent' = Without(sent, ch[t])
               /\ expect' = Without(expect, ch[t])
               /\ got' = [got EXCEPT ![t] = <<>>]
               /\ ch' = [ch EXCEPT ![t] = 0]
               /\ todo' = [todo EXCEPT ![t] = Tail(@)]
               /\ IF Tail(todo[t]) = <<>>
                  THEN Finish(t, cur[t], rows, stop)
                  ELSE /\ pc' = [pc EXCEPT ![t] = "run"]
                       /\ UNCHANGED <<ret, cur>>
    /\ UNCHANGED <<zip, nodes, edges, reqs, worker, ncalls, callers, budget,
                   failed, waited, shadow, pre, app, gen>>

\* the rows a statement returns on the store the queued commands produce
Queried(st, s) == IF s.ok THEN Rows(st, s.nodes, s.edges) ELSE <<>>

\* a generator method called like a plain one: the SELECT is queued at
\* the call
EagerCall(t, op, args, st) ==
    LET c == FreshQueue
        s1 == Apply(st, shadow)
    IN /\ t \in callers
       /\ pc[t] = "idle"
       /\ gen[t].phase \in {"none", "done", "dropped"}
       /\ ncalls < budget
       /\ ncalls' = ncalls + 1
       /\ chan' = With(chan, c, <<>>)
       /\ sent' = With(sent, c, <<>>)
       /\ expect' = With(expect, c, IF s1.ok
                                    THEN Answer(st, s1.nodes, s1.edges)
                                    ELSE <<>>)
       /\ reqs' = Put(reqs, [st |-> st, call |-> [op |-> op, args |-> args],
                             first |-> FALSE, last |-> FALSE,
                             res |-> c, owes |-> {}, by |-> t])
       /\ shadow' = s1
       /\ gen' = [gen EXCEPT ![t] =
                     [NoGen EXCEPT !.phase = "new",
                                   !.call = [op |-> op, args |-> args],
                                   !.st = st, !.q = c,
                                   !.born = Queried(st, s1)]]
       /\ UNCHANGED <<zip, nodes, edges, worker, pc, cur, todo, ch, got, ret,
                      callers, budget, failed, waited, pre, app>>

\* a caller calls a generator method (neighbors, edges, ...): it gets a
\* generator object, and no code of the method has run
LazyCall(t, op, args, st) ==
    /\ t \in callers
    /\ pc[t] = "idle"
    /\ gen[t].phase \in {"none", "done", "dropped"}
    /\ ncalls < budget
    /\ ncalls' = ncalls + 1
    /\ gen' = [gen EXCEPT ![t] =
                  [NoGen EXCEPT !.phase = "new",
                                !.call = [op |-> op, args |-> args],
                                !.st = st,
                                !.born = Queried(st, Apply(st, shadow))]]
    /\ UNCHANGED <<zip, nodes, edges, reqs, chan, worker, pc, cur, todo, ch,
                   got, ret, callers, budget, failed, waited, shadow, expect,
                   sent, pre, app>>

\* the first next() on the generator: the method's code runs up to
\* conn.select, which makes the result queue, puts the command and waits
\* in res.get()
Pull(t) ==
    /\ pc[t] = "idle"
    /\ gen[t].phase = "new"
    /\ LET st == gen[t].st
           s1 == Apply(st, shadow)
           c == FreshQueue
       IN /\ chan' = With(chan, c, <<>>)
          /\ sent' = With(sent, c, <<>>)
          /\ expect' = With(expect, c, IF s1.ok
                                       THEN Answer(st, s1.nodes, s1.edges)
                                       ELSE <<>>)
          /\ reqs' = Put(Queued(t, st),
                         [st |-> st, call |-> gen[t].call, first |-> FALSE,
                          last |-> FALSE, res |-> c, owes |-> {}, by |-> t])
          /\ shadow' = s1
          /\ gen' = [gen EXCEPT ![t].phase = "open", ![t].q = c,
                                ![t].at = Queried(st, s1)]
    /\ pc' = [pc EXCEPT ![t] = "pull"]
    /\ UNCHANGED <<zip, nodes, edges, worker, cur, todo, ch, got, ret, ncalls,
                   callers, budget, failed, waited, pre, app>>

\* rec = res.get() for the generator, in the first next() or in a later
\* one: a row is yielded to the caller, Action.END ends the generator
Yield(t) ==
    /\ gen[t].phase = "open"
    /\ pc[t] \in {"pull", "idle"}
    /\ chan[gen[t].q] # <<>>
    /\ LET q == gen[t].q
           m == Head(chan[q])
       IN IF m.end
          THEN /\ chan' = Without(chan, q)
               /\ sent' = Without(sent, q)
               /\ expect' = Without(expect, q)
               /\ gen' = [gen EXCEPT ![t].phase = "done", ![t].q = 0]
          ELSE /\ chan' = [chan EXCEPT ![q] = Tail(@)]
               /\ gen' = [gen EXCEPT ![t].rows = Append(@, m.rec)]
               /\ UNCHANGED <<sent, expect>>
    /\ pc' = [pc EXCEPT ![t] = "idle"]
    /\ UNCHANGED <<zip, nodes, edges, reqs, worker, cur, todo, ch, got, ret,
                   ncalls, callers, budget, failed, waited, shadow, pre, app>>

\* the caller lets go of a generator it has not exhausted (break, del):
\* nothing is sent to the worker, the result queue goes with the generator
Drop(t) ==
    /\ pc[t] = "idle"
    /\ gen[t].phase \in {"new", "open"}
    /\ LET q == gen[t].q
       IN /\ gen' = [gen EXCEPT ![t].phase = "dropped", ![t].q = 0,
                                ![t].left = IF q = 0 THEN 0 ELSE Len(chan[q])]
          /\ chan' = IF q = 0 THEN chan ELSE Without(chan, q)
          /\ sent' = IF q = 0 THEN sent ELSE Without(sent, q)
          /\ expect' = IF q = 0 THEN expect ELSE Without(expect, q)
    /\ UNCHANGED <<zip, nodes, edges, reqs, worker, pc, cur, todo, ch, got,
                   ret, ncalls, callers, budget, failed, waited, shadow, pre,
                   app>>

\* ---------------------------------------------------------------- Graph
\* commit() that puts Action.COMMIT and does not wait for Action.END
CommitStepNoWait == W(Stmt("COMMIT", 0, <<>>), FALSE, FALSE)

\* Graph.commit / GraphMultithread.commit: select_one(Action.COMMIT)
CommitStep == R("next", Stmt("COMMIT", 0, <<>>))

\* sequences of length 0..n over S
SeqsUpTo(S, n) == UNION {[1..m -> S] : m \in 0..n}

\* the arguments the callers of a run draw from: attribute mappings, and
\* the longest list passed to add_edges_from and to set_neighbors
Wide == [maps |-> AttrMaps, pairs |-> MaxPairs, targets |-> MaxTargets]
Shared == [maps |-> {EmptyMap, [n \in {1} |-> 1]}, pairs |-> MaxPairs,
           targets |-> MaxSharedTargets]

\* list(set(xs)): the distinct elements in an order the caller does not
\* control
Orders(S) == {p \in [1..Cardinality(S) -> S] : Range(p) = S}

\* list(itertools.chain(*edges))
Flat(pairs) ==
    [i \in 1..(2 * Len(pairs)) |->
        IF i % 2 = 1 THEN pairs[(i + 1) \div 2][1] ELSE pairs[i \div 2][2]]

\* REPLACE whatever the attributes: add_node(k) clears an existing node
AddNodeStepsAlwaysReplace(z, k, attrs) ==
    IF attrs = EmptyMap
    THEN <<W(Stmt("ADD_ITEM", 1, <<k>>), TRUE, TRUE), CommitStep>>
    ELSE <<W(Stmt("REPLACE_NODE", 2, <<k, Encode(z, attrs)>>), TRUE, TRUE),
           CommitStep>>

AddNodeSteps(z, k, attrs) ==
    IF attrs = EmptyMap
    THEN <<W(Stmt("ADD_NODE", 1, <<k>>), TRUE, TRUE), CommitStep>>
    ELSE <<W(Stmt("REPLACE_NODE", 2, <<k, Encode(z, attrs)>>), TRUE, TRUE),
           CommitStep>>

add_node(t, D) ==
    \E k \in AnyKey, attrs \in D.maps :
        Start(t, "add_node", <<k, attrs>>, AddNodeSteps(zip, k, attrs))

\* only the edges starting from u are deleted
RemoveNodeStepsOutEdgesOnly(u) ==
    <<W(Stmt("DEL_EDGES_SRC", 1, <<u>>), TRUE, FALSE),
      W(Stmt("DEL_NODE", 1, <<u>>), FALSE, TRUE)>>

RemoveNodeSteps(u) ==
    <<W(Stmt("DEL_EDGES", 2, <<u, u>>), TRUE, FALSE),
      W(Stmt("DEL_NODE", 1, <<u>>), FALSE, TRUE)>>

remove_node(t) ==
    \E u \in Keys : Start(t, "remove_node", <<u>>, RemoveNodeSteps(u))

AddEdgeSteps(s, d) ==
    <<W(Stmt("ADD_NODES", 2, <<s, d>>), TRUE, FALSE),
      W(Stmt("ADD_EDGE", 2, <<s, d>>), FALSE, TRUE),
      CommitStep>>

add_edge(t) ==
    \E s \in Keys, d \in Keys :
        Start(t, "add_edge", <<s, d>>, AddEdgeSteps(s, d))

\* first: whether the ADD_NODES statement is the first write of the method
AddEdgesFromSteps(pairs, order, first) ==
    IF Len(pairs) = 0 THEN <<>>
    ELSE <<W(Stmt("ADD_NODES", Len(order), order), first, FALSE),
           W(Stmt("ADD_EDGES", 2 * Len(pairs), Flat(pairs)), FALSE, TRUE),
           CommitStep>>

add_edges_from(t, D) ==
    \E pairs \in SeqsUpTo(Keys \X Keys, D.pairs) :
        \E order \in Orders(Range(Flat(pairs))) :
            Start(t, "add_edges_from", <<pairs>>,
                  AddEdgesFromSteps(pairs, order, TRUE))

remove_edge(t) ==
    \E u \in Keys, v \in Keys :
        Start(t, "remove_edge", <<u, v>>,
              <<W(Stmt("DEL_EDGE", 2, <<u, v>>), TRUE, TRUE)>>)

\* the DELETE of remove_node in place of the one on source alone: the
\* edges that end in u go as well
SetNeighborsStepsBothEnds(u, targets, order) ==
    LET pairs == [i \in 1..Len(targets) |-> <<u, targets[i]>>]
    IN <<W(Stmt("DEL_EDGES", 2, <<u, u>>), TRUE, Len(targets) = 0)>>
       \o AddEdgesFromSteps(pairs, order, FALSE)

SetNeighborsSteps(u, targets, order) ==
    LET pairs == [i \in 1..Len(targets) |-> <<u, targets[i]>>]
    IN <<W(Stmt("DEL_EDGES_SRC", 1, <<u>>), TRUE, Len(targets) = 0)>>
       \o AddEdgesFromSteps(pairs, order, FALSE)

set_neighbors(t, D) ==
    \E u \in Keys, targets \in SeqsUpTo(Keys, D.targets) :
        \E order \in Orders(IF Len(targets) = 0 THEN {}
                            ELSE {u} \cup Range(targets)) :
            Start(t, "set_neighbors", <<u, targets>>,
                  SetNeighborsSteps(u, targets, order))

\* executescript splits CLEAR_ALL at ";": two DELETEs and the blank rest
ClearSteps ==
    <<W(Stmt("CLEAR_NODES", 0, <<>>), TRUE, FALSE),
      W(Stmt("CLEAR_EDGES", 0, <<>>), FALSE, FALSE),
      W(Stmt("BLANK", 0, <<>>), FALSE, TRUE),
      CommitStep>>

clear(t) == Start(t, "clear", <<>>, ClearSteps)

commit(t) == Start(t, "commit", <<>>, <<CommitStep>>)

has_node(t) ==
    \E k \in AnyKey :
        Start(t, "has_node", <<k>>,
              <<R("next", Stmt("GET_NODE_KEY", 1, <<k>>))>>)

node(t) ==
    \E k \in Keys :
        Start(t, "node", <<k>>, <<R("next", Stmt("GET_NODE", 1, <<k>>))>>)

has_edge(t) ==
    \E u \in Keys, v \in Keys :
        Start(t, "has_edge", <<u, v>>,
              <<R("next", Stmt("GET_EDGE", 2, <<u, v>>))>>)

n_nodes(t) ==
    Start(t, "n_nodes", <<>>, <<R("next", Stmt("GET_N_NODES", 0, <<>>))>>)

n_edges(t) ==
    Start(t, "n_edges", <<>>, <<R("next", Stmt("GET_N_EDGES", 0, <<>>))>>)

\* list(G.neighbors(u)): the generator consumed to its end
neighbors(t) ==
    \E u \in Keys :
        Start(t, "neighbors", <<u>>,
              <<R("all", Stmt("GET_NEIGHBORS", 1, <<u>>))>>)

\* INSERT OR IGNORE as in add_node(key): an existing node is left alone
AddNodesFromStepsIgnore(keys) ==
    [i \in 1..Len(keys) |->
        W(Stmt("ADD_NODE", 1, <<keys[i]>>), i = 1, i = Len(keys))]
    \o <<CommitStep>>

\* one REPLACE per key, then commit()
AddNodesFromSteps(keys) ==
    [i \in 1..Len(keys) |->
        W(Stmt("ADD_ITEM", 1, <<keys[i]>>), i = 1, i = Len(keys))]
    \o <<CommitStep>>

add_nodes_from(t, D) ==
    \E keys \in SeqsUpTo(Keys, D.keys) :
        Start(t, "add_nodes_from", <<keys>>, AddNodesFromSteps(keys))

\* DEL_EDGES has one placeholder and is given (u, 2)
SetPredecessorsSteps(u, sources, order) ==
    LET pairs == [i \in 1..Len(sources) |-> <<sources[i], u>>]
    IN <<W(Stmt("DEL_EDGES_TGT", 1, <<u, 2>>), TRUE, Len(sources) = 0)>>
       \o AddEdgesFromSteps(pairs, order, FALSE)

set_predecessors(t, D) ==
    \E u \in Keys, sources \in SeqsUpTo(Keys, D.targets) :
        \E order \in Orders(IF Len(sources) = 0 THEN {}
                            ELSE {u} \cup Range(sources)) :
            Start(t, "set_predecessors", <<u, sources>>,
                  SetPredecessorsSteps(u, sources, order))

\* list(G.predecessors(u))
predecessors(t) ==
    \E u \in Keys :
        Start(t, "predecessors", <<u>>,
              <<R("all", Stmt("GET_PREDECESSORS", 1, <<u>>))>>)

\* list(G.nodes)
all_nodes(t) ==
    Start(t, "nodes", <<>>, <<R("nodes", Stmt("GET_NODES", 0, <<>>))>>)

\* the page taken for the offset
OffsetIsPage(batch_size, page) == page

\* offset = page * batch_size
Offset(batch_size, page) == page * batch_size

\* list(G.batch_get_nodes(batch_size, page))
batch_get_nodes(t) ==
    \E batch_size \in 1..MaxBatch, page \in 0..MaxPage :
        Start(t, "batch_get_nodes", <<batch_size, page>>,
              <<R("all", PageStmt("GET_NODES_PAGE", batch_size,
                                  Offset(batch_size, page)))>>)

\* list(G.batch_get_edges(batch_size, page))
batch_get_edges(t) ==
    \E batch_size \in 1..MaxBatch, page \in 0..MaxPage :
        Start(t, "batch_get_edges", <<batch_size, page>>,
              <<R("all", PageStmt("GET_EDGES_PAGE", batch_size,
                                  Offset(batch_size, page)))>>)

\* Graph.close / GraphMultithread.close: execute(Action.CLOSE)
close(t) ==
    Start(t, "close", <<>>, <<W(Stmt("CLOSE", 0, <<>>), FALSE, FALSE)>>)

\* g = G.neighbors(u)
neighbors_gen(t) ==
    \E u \in Keys :
        LazyCall(t, "neighbors", <<u>>, Stmt("GET_NEIGHBORS", 1, <<u>>))

\* g = G.edges
edges_gen(t) == LazyCall(t, "edges", <<>>, Stmt("GET_EDGES", 0, <<>>))

\* ---------------------------------------------------------------- results
\* what Graph.node makes of the row it got: KeyError when there is none,
\* the bare key when attributes is NULL, else Node(key, decode(attributes))
NodeOf(z, rows) ==
    IF rows = <<>> THEN [attrs |-> EmptyMap, kind |-> "KeyError", key |-> 0]
    ELSE IF rows[1][2] = NULL
         THEN [attrs |-> EmptyMap, kind |-> "key", key |-> rows[1][1]]
    ELSE IF Decode(z, rows[1][2]).ok
         THEN [attrs |-> Decode(z, rows[1][2]).val,
               kind |-> "Node", key |-> rows[1][1]]
    ELSE [attrs |-> EmptyMap, kind |-> "raise", key |-> rows[1][1]]

\* Graph.has_node on a store: a row came before Action.END
HasNode(N, E, k) == Rows(Stmt("GET_NODE_KEY", 1, <<k>>), N, E) # <<>>

\* Graph.has_edge on a store: n == 1
HasEdge(N, E, u, v) == Rows(Stmt("GET_EDGE", 2, <<u, v>>), N, E)[1][1] = 1

\* Graph.n_nodes / Graph.n_edges on a store
NNodes(N, E) == Rows(Stmt("GET_N_NODES", 0, <<>>), N, E)[1][1]
NEdges(N, E) == Rows(Stmt("GET_N_EDGES", 0, <<>>), N, E)[1][1]

\* list(Graph.subgraph(keys)) on a store: nodes * 2 bound to both IN lists
Subgraph(N, E, keys) ==
    Rows(Stmt("GET_SUBGRAPH", 2 * Len(keys), keys \o keys), N, E)

\* what list(G.nodes) is handed before the loop ends or raises: per row
\* taken, the bare key or the Node; raised when a row has no attributes
\* (after its key was yielded, decode(None) raises TypeError)
AllNodes(z, rows) ==
    [items |-> [i \in 1..Len(rows) |-> NodeOf(z, <<rows[i]>>)],
     raised |-> \E i \in 1..Len(rows) : NodeOf(z, <<rows[i]>>).kind # "Node"]

\* Graph.predecessors on a store: the sources in the order they come
Predecessors(N, E, u) ==
    LET rows == Rows(Stmt("GET_PREDECESSORS", 1, <<u>>), N, E)
    IN [i \in 1..Len(rows) |-> rows[i][1]]

RECURSIVE PagesFrom(_, _, _, _, _)
\* pages page, page + 1, ... of batch_get_nodes / batch_get_edges on a
\* store, one after the other, up to the first empty one
PagesFrom(sql, batch_size, page, N, E) ==
    LET rows == Rows(PageStmt(sql, batch_size, Offset(batch_size, page)), N, E)
    IN IF rows = <<>> THEN <<>>
       ELSE rows \o PagesFrom(sql, batch_size, page + 1, N, E)

\* ---------------------------------------------------------------- system
Caller(t, D) ==
    \/ add_node(t, D) \/ remove_node(t) \/ add_edge(t)
    \/ add_edges_from(t, D) \/ remove_edge(t) \/ set_neighbors(t, D)
    \/ clear(t) \/ commit(t)
    \/ has_node(t) \/ node(t) \/ has_edge(t) \/ n_nodes(t) \/ n_edges(t)
    \/ neighbors(t)
    \/ Continue(t) \/ Get(t)

\* several threads on one Graph
Next == Run \/ \E t \in Threads : Caller(t, Shared)

Spec == Init /\ [][Next]_vars

\* one thread on its Graph
NextSeq == Run \/ Caller(1, Wide)

SpecSeq == InitSeq /\ [][NextSeq]_vars

\* N threads, each calling add_edge once with a pair no other thread uses;
\* when all have returned one of them calls commit(), and after that
\* n_edges is read
InitAddEdges == InitWith({FALSE}, Threads, NThreads + 2)

CalledOps == {cur[t].op : t \in Threads} \cup {ret[t].op : t \in Threads}

PairsInUse ==
    {cur[t].args : t \in {x \in Threads : cur[x].op = "add_edge"}}
    \cup {ret[t].args : t \in {x \in Threads : ret[x].op = "add_edge"}}

EachAddEdge(t) ==
    /\ ret[t].op = "none"
    /\ \E s \in Keys, d \in Keys :
        /\ <<s, d>> \notin PairsInUse
        /\ Start(t, "add_edge", <<s, d>>, AddEdgeSteps(s, d))

CommitAfterAll(t) ==
    /\ \A u \in Threads : pc[u] = "idle" /\ ret[u].op = "add_edge"
    /\ commit(t)

CountAfterCommit(t) ==
    /\ \A u \in Threads : pc[u] = "idle"
    /\ "commit" \in CalledOps
    /\ "n_edges" \notin CalledOps
    /\ n_edges(t)

NextAddEdges ==
    \/ Run
    \/ \E t \in Threads :
          \/ EachAddEdge(t) \/ CommitAfterAll(t) \/ CountAfterCommit(t)
          \/ Continue(t) \/ Get(t)

SpecAddEdges == InitAddEdges /\ [][NextAddEdges]_vars

\* one thread on its Graph, with the bulk methods and close()
Bulk == [keys |-> MaxBulkKeys, maps |-> {EmptyMap, [n \in {1} |-> 1]},
         pairs |-> MaxPairs, targets |-> MaxSharedTargets]

NextBulk ==
    \/ Run
    \/ add_node(1, Bulk) \/ add_edge(1) \/ add_nodes_from(1, Bulk)
    \/ remove_edge(1) \/ set_predecessors(1, Bulk) \/ predecessors(1)
    \/ all_nodes(1) \/ batch_get_nodes(1) \/ batch_get_edges(1)
    \/ close(1) \/ n_nodes(1) \/ commit(1)
    \/ Continue(1) \/ Get(1)

SpecBulk == InitSeq /\ [][NextBulk]_vars

\* thread 1 adds edges; every thread holds generators of lazy reads, takes
\* rows from them or lets go of them, and commits
InitLazy == InitWith({FALSE}, Threads, MaxLazyCalls)

NextLazy ==
    \/ Run
    \/ add_edge(1)
    \/ \E t \in Threads :
          \/ commit(t)
          \/ neighbors_gen(t) \/ edges_gen(t)
          \/ Pull(t) \/ Yield(t) \/ Drop(t)
          \/ Continue(t) \/ Get(t)

SpecLazy == InitLazy /\ [][NextLazy]_vars

\* the worker thread runs whenever it has a command to take
SpecLazyFair == SpecLazy /\ WF_vars(Run)

\* G.add_edge(s, d) by thread 1 has returned; thread 1 then calls
\* set_neighbors, and the other threads read neighbors
InitSetNeighbors == InitWith({FALSE}, Threads, MaxCalls + 1)

FirstAddEdge(t) == t = 1 /\ ret[t].op = "none" /\ add_edge(t)

ThenSetNeighbors(t) ==
    t = 1 /\ ret[t].op = "add_edge" /\ set_neighbors(t, Shared)

ReadNeighbors(t) ==
    /\ t # 1
    /\ ret[1].op \in {"add_edge", "set_neighbors"}
    /\ neighbors(t)

NextSetNeighbors ==
    \/ Run
    \/ \E t \in Threads :
          \/ FirstAddEdge(t) \/ ThenSetNeighbors(t) \/ ReadNeighbors(t)
          \/ Continue(t) \/ Get(t)

SpecSetNeighbors == InitSetNeighbors /\ [][NextSetNeighbors]_vars

\* ---------------------------------------------------------------- claims
InCommit(t) ==
    pc[t] = "recv" /\ todo[t] # <<>> /\ Head(todo[t]).st.sql = "COMMIT"

NoDangling(N, E) ==
    \A i \in 1..Len(E) : E[i][1] \in NodeKeys(N) /\ E[i][2] \in NodeKeys(N)

\* C1: the worker executes the commands in the order they entered the
\* queue: whatever it puts on the result queue of a read is what the read
\* returns on the store with exactly the commands put before it applied,
\* and once the queue is drained the store is the one all commands put so
\* far produce in put order.
C1_ReadsSeeEarlierWrites ==
    /\ \A c \in DOMAIN sent : sent[c] = <<>> \/ sent[c] = expect[c]
    /\ (reqs = <<>> /\ shadow.ok) =>
           (nodes = shadow.nodes /\ edges = shadow.edges)

\* a thread's n_edges is answered 1 while another thread is still inside
\* the add_edge that wrote the edge
C1_Witness ==
    \E t \in Threads, u \in Threads :
        /\ t # u
        /\ pc[t] = "recv" /\ cur[t].op = "n_edges"
        /\ sent[ch[t]] = <<Row(<<1>>), END>>
        /\ cur[u].op = "add_edge"

\* C2: commit() is a barrier: a command that was queued when a caller put
\* its COMMIT is never still queued once that caller is out of the commit.
C2_CommitIsBarrier ==
    \A i \in 1..Len(reqs) : \A t \in reqs[i].owes : InCommit(t)

\* a commit() has returned that was put behind another thread's command
C2_Witness ==
    \E t \in Threads :
        /\ pc[t] = "idle" /\ ret[t].op = "commit"
        /\ waited[t] \ {t} # {}

\* C3: N threads call add_edge with pairwise different pairs on an empty
\* store; after a commit() issued when all have returned, n_edges is N.
C3_NoLostEdges ==
    \A t \in Threads :
        (pc[t] = "idle" /\ ret[t].op = "n_edges") =>
            ret[t].rows = << <<NThreads>> >>

\* n_edges has returned at the end of the scenario
C3_Witness ==
    \E t \in Threads :
        /\ pc[t] = "idle" /\ ret[t].op = "n_edges"
        /\ Len(edges) = NThreads

C5_CommitReportsWriteError ==
    \A t \in Threads :
        ~ /\ \E f \in failed : f.res = 0
          /\ InCommit(t)
          /\ chan[ch[t]] = <<>>
          /\ worker # "running"

\* C6: when the statement of a read fails, the worker puts a terminator on
\* that read's result queue.
C6_FailedReadIsTerminated ==
    \A f \in failed :
        (f.res # 0 /\ f.res \in DOMAIN sent) => sent[f.res] # <<>>

\* C7: edges never dangle: in every state of the store the source and the
\* target of every edge are keys of nodes.
C7_EdgesNeverDangle == NoDangling(nodes, edges)

\* C8: with one caller, once remove_node(k) is applied k is no node, no
\* edge has k as source or target (no edge of a subgraph over all keys
\* mentions k), and the other nodes, with attributes and order, and the
\* edges not incident to k are as before.
C8_RemoveNodeCascades ==
    app.op = "remove_node" =>
        LET k == app.args[1]
            all == [i \in 1..NKeys |-> i]
        IN /\ ~HasNode(nodes, edges, k)
           /\ \A e \in Range(edges) : e[1] # k /\ e[2] # k
           /\ \A e \in Range(Subgraph(nodes, edges, all)) :
                  e[1] # k /\ e[2] # k
           /\ nodes = SelectSeq(pre.nodes, LAMBDA r : r[1] # k)
           /\ edges = SelectSeq(pre.edges, LAMBDA e : e[1] # k /\ e[2] # k)

\* remove_node(k) applied to a store where k had an in-edge, another edge
\* did not touch k and another node had attributes
C8_Witness ==
    /\ app.op = "remove_node"
    /\ app.args[1] \in NodeKeys(pre.nodes)
    /\ \E e \in Range(pre.edges) : e[2] = app.args[1] /\ e[1] # app.args[1]
    /\ edges # <<>>
    /\ \E r \in Range(nodes) : r[2] # NULL

\* C9: with one caller, add_node(k) without attributes leaves an existing
\* k as it is, attributes and position, and appends an absent one;
\* add_node(k, attrs) makes node(k) carry exactly attrs, puts k last in
\* the insertion order and makes n_nodes grow by one only if k was absent.
C9_AddNodeInsertOrOverwrite ==
    app.op = "add_node" =>
        LET k == app.args[1]
            attrs == app.args[2]
            was == k \in NodeKeys(pre.nodes)
            got1 == NodeOf(zip, Rows(Stmt("GET_NODE", 1, <<k>>), nodes, edges))
        IN /\ edges = pre.edges
           /\ attrs = EmptyMap =>
                  /\ was => nodes = pre.nodes
                  /\ ~was => nodes = Append(pre.nodes, <<k, NULL>>)
           /\ attrs # EmptyMap =>
                  /\ got1.kind = "Node" /\ got1.key = k /\ got1.attrs = attrs
                  /\ nodes[Len(nodes)][1] = k
                  /\ NNodes(nodes, edges) =
                         NNodes(pre.nodes, pre.edges) + (IF was THEN 0 ELSE 1)
                  /\ SelectSeq(nodes, LAMBDA r : r[1] # k) =
                         SelectSeq(pre.nodes, LAMBDA r : r[1] # k)

\* add_node(k, attrs) applied where k had other attributes and was not last
C9_Witness ==
    /\ app.op = "add_node"
    /\ app.args[2] # EmptyMap
    /\ \E i \in 1..(Len(pre.nodes) - 1) :
           /\ pre.nodes[i][1] = app.args[1]
           /\ pre.nodes[i][2] # NULL
           /\ pre.nodes[i][2] # Encode(zip, app.args[2])

\* C10: with one caller, once add_edge(u, v) is applied u and v are nodes,
\* the nodes that existed keep attributes and position, has_edge(u, v) is
\* true, and if the edge was there already nothing has changed (n_edges,
\* n_nodes, edge order); when the call has returned the worker is running
\* and the edge is there.
C10_AddEdgeIdempotent ==
    /\ app.op = "add_edge" =>
          LET u == app.args[1]
              v == app.args[2]
          IN /\ HasNode(nodes, edges, u) /\ HasNode(nodes, edges, v)
             /\ SubSeq(nodes, 1, Len(pre.nodes)) = pre.nodes
             /\ HasEdge(nodes, edges, u, v)
             /\ HasEdge(pre.nodes, pre.edges, u, v) =>
                    /\ edges = pre.edges
                    /\ NEdges(nodes, edges) = NEdges(pre.nodes, pre.edges)
                    /\ nodes = pre.nodes
                    /\ NNodes(nodes, edges) = NNodes(pre.nodes, pre.edges)
    /\ (pc[1] = "idle" /\ ret[1].op = "add_edge") =>
          /\ worker = "running"
          /\ ret[1].stop
          /\ HasEdge(nodes, edges, ret[1].args[1], ret[1].args[2])

\* add_edge(u, v) applied a second time, u having attributes
C10_Witness ==
    /\ app.op = "add_edge"
    /\ pc[1] = "idle" /\ ret[1].op = "add_edge"
    /\ HasEdge(pre.nodes, pre.edges, app.args[1], app.args[2])
    /\ \E r \in Range(pre.nodes) : r[1] = app.args[1] /\ r[2] # NULL

\* Graph.neighbors on a store: the targets in the order they come
Neighbors(N, E, u) ==
    LET rows == Rows(Stmt("GET_NEIGHBORS", 1, <<u>>), N, E)
    IN [i \in 1..Len(rows) |-> rows[i][1]]

\* C11: with one caller, once set_neighbors(u, targets) is applied the
\* keys neighbors(u) yields are exactly the targets, each once (none when
\* targets is empty), the edges whose source is not u are as before, every
\* node that existed is still there with its attributes and position, and
\* every target is a node; the call has returned with the worker running.
C11_SetNeighborsReplacesOutEdges ==
    /\ app.op = "set_neighbors" =>
          LET u == app.args[1]
              targets == app.args[2]
              out == Neighbors(nodes, edges, u)
          IN /\ Range(out) = Range(targets)
             /\ Len(out) = Cardinality(Range(targets))
             /\ SelectSeq(edges, LAMBDA e : e[1] # u) =
                    SelectSeq(pre.edges, LAMBDA e : e[1] # u)
             /\ SubSeq(nodes, 1, Len(pre.nodes)) = pre.nodes
             /\ Range(targets) \subseteq NodeKeys(nodes)
    /\ (pc[1] = "idle" /\ ret[1].op = "set_neighbors") => worker = "running"

\* set_neighbors(u, targets) applied where u had an edge to a key that is
\* no target, another node had an edge into u, and targets is not empty
C11_Witness ==
    /\ app.op = "set_neighbors"
    /\ app.args[2] # <<>>
    /\ \E e \in Range(pre.edges) :
           e[1] = app.args[1] /\ e[2] \notin Range(app.args[2])
    /\ \E e \in Range(pre.edges) : e[1] # app.args[1] /\ e[2] = app.args[1]
    /\ pc[1] = "idle" /\ ret[1].op = "set_neighbors"

\* C12: set_neighbors(u, targets) is atomic for the readers: after
\* add_edge has returned, whatever a neighbors(u) of another thread is
\* answered while set_neighbors is called is the complete old set of
\* out-neighbours of u or the complete new one, the targets.
C12_SetNeighborsAtomic ==
    \A r \in Threads \ {1} :
        (/\ pc[r] = "recv" /\ cur[r].op = "neighbors"
         /\ sent[ch[r]] # <<>>
         /\ ret[1].op = "add_edge") =>
            LET u == cur[r].args[1]
                seen == {m.rec[1] : m \in {x \in Range(sent[ch[r]]) : ~x.end}}
                old == IF ret[1].args[1] = u THEN {ret[1].args[2]} ELSE {}
                new == IF cur[1].op = "set_neighbors" /\ cur[1].args[1] = u
                       THEN Range(cur[1].args[2]) ELSE old
            IN seen \in {old, new}

\* C13: set_predecessors(u, sources) deletes the edges with target u with
\* one bound parameter, so that the DELETE is executed and the call
\* returns; once it is applied the keys predecessors(u) yields are exactly
\* the sources and the edges whose target is not u are as before.
C13_SetPredecessorsReplacesInEdges ==
    /\ \A f \in failed : f.st.sql # "DEL_EDGES_TGT"
    /\ ~(cur[1].op = "set_predecessors" /\ worker = "crashed")
    /\ app.op = "set_predecessors" =>
          LET u == app.args[1]
              sources == app.args[2]
          IN /\ Range(Predecessors(nodes, edges, u)) = Range(sources)
             /\ SelectSeq(edges, LAMBDA e : e[2] # u) =
                    SelectSeq(pre.edges, LAMBDA e : e[2] # u)

\* C14: list(G.nodes) ends without error and holds one item per stored
\* node, in insertion order: the bare key for a node without attributes,
\* a Node with the decoded attributes for the others.
C14_AllNodesOneItemPerNode ==
    (pc[1] = "idle" /\ ret[1].op = "nodes") =>
        LET r == AllNodes(zip, ret[1].rows)
        IN /\ ~r.raised
           /\ Len(r.items) = Len(nodes)
           /\ \A i \in 1..Min(Len(r.items), Len(nodes)) :
                  /\ r.items[i].key = nodes[i][1]
                  /\ nodes[i][2] = NULL => r.items[i].kind = "key"
                  /\ nodes[i][2] # NULL =>
                         /\ r.items[i].kind = "Node"
                         /\ r.items[i].attrs = Decode(zip, nodes[i][2]).val

\* number of elements at positions p*s .. p*s+s-1 of a sequence of n
OnPage(n, s, p) == IF n <= p * s THEN 0 ELSE Min(s, n - p * s)

\* C15: with one caller and no write in between, page p of size s of
\* batch_get_nodes / batch_get_edges is the elements at positions p*s ..
\* p*s+s-1 of the insertion order (fewer or none past the end), the pages
\* 0, 1, 2, ... one after the other are every key / edge once in that
\* order, a deleted edge leaves the order of the others alone, and an
\* existing edge or attribute-less node added again keeps its position.
C15_PagesFollowInsertionOrder ==
    /\ (pc[1] = "idle" /\ ret[1].op = "batch_get_nodes") =>
          LET s == ret[1].args[1]
              p == ret[1].args[2]
          IN ret[1].rows =
                 [i \in 1..OnPage(Len(nodes), s, p) |-> <<nodes[p * s + i][1]>>]
    /\ (pc[1] = "idle" /\ ret[1].op = "batch_get_edges") =>
          LET s == ret[1].args[1]
              p == ret[1].args[2]
          IN ret[1].rows =
                 [i \in 1..OnPage(Len(edges), s, p) |-> edges[p * s + i]]
    /\ \A s \in 1..MaxBatch :
          /\ PagesFrom("GET_NODES_PAGE", s, 0, nodes, edges) =
                 [i \in 1..Len(nodes) |-> <<nodes[i][1]>>]
          /\ PagesFrom("GET_EDGES_PAGE", s, 0, nodes, edges) = edges
    /\ app.op = "remove_edge" =>
          edges = SelectSeq(pre.edges, LAMBDA e : e # app.args)
    /\ (app.op = "add_edge" /\ app.args \in Range(pre.edges)) =>
          edges = pre.edges
    /\ (/\ app.op = "add_node" /\ app.args[2] = EmptyMap
        /\ app.args[1] \in NodeKeys(pre.nodes)) => nodes = pre.nodes

\* page 1 of size 1 of batch_get_nodes has returned the second node of a
\* store whose insertion order is not the key order
C15_Witness ==
    /\ pc[1] = "idle" /\ ret[1].op = "batch_get_nodes"
    /\ ret[1].args = <<1, 1>>
    /\ Len(nodes) = 2
    /\ nodes[1][1] > nodes[2][1]
    /\ ret[1].rows = << <<nodes[2][1]>> >>

\* C18: once close() has been processed no operation is accepted: no
\* command is in the queue behind the CLOSE that ended the worker, and no
\* caller waits on a result queue that nobody will fill (it gets a
\* ClosedError instead).
C18_ClosedRefusesOperations ==
    worker = "closed" =>
        /\ reqs = <<>>
        /\ \A t \in Threads : ~(pc[t] = "recv" /\ chan[ch[t]] = <<>>)

\* the distinct elements of keys in the order of their last occurrence
LastOccurrences(keys) ==
    Filter(keys, {i \in 1..Len(keys) :
                    \A j \in (i + 1)..Len(keys) : keys[j] # keys[i]})

\* C19: with one caller, once add_nodes_from(keys) is applied every listed
\* key is a node without attributes (node(k) returns the bare key) at the
\* end of the insertion order, behind the nodes not listed, which are as
\* before; n_nodes counts each distinct key once; the edges are as
\* before; and where a listed key had attributes the store is not the
\* one add_node(k) for each key would leave.
C19_AddNodesFromReplaces ==
    app.op = "add_nodes_from" =>
        LET keys == app.args[1]
            S == Range(keys)
            moved == LastOccurrences(keys)
        IN /\ \A k \in S :
                  NodeOf(zip, Rows(Stmt("GET_NODE", 1, <<k>>), nodes, edges)).kind
                      = "key"
           /\ nodes = SelectSeq(pre.nodes, LAMBDA r : r[1] \notin S)
                          \o [i \in 1..Len(moved) |-> <<moved[i], NULL>>]
           /\ NNodes(nodes, edges) = Cardinality(NodeKeys(pre.nodes) \cup S)
           /\ edges = pre.edges
           /\ (\E r \in Range(pre.nodes) : r[1] \in S /\ r[2] # NULL) =>
                  nodes # InsertOrIgnoreNodes(pre.nodes, keys)

\* add_nodes_from applied to a list naming twice a key that had
\* attributes and was not the last node
C19_Witness ==
    /\ app.op = "add_nodes_from"
    /\ Len(app.args[1]) > Cardinality(Range(app.args[1]))
    /\ \E i \in 1..(Len(pre.nodes) - 1) :
           pre.nodes[i][1] \in Range(app.args[1]) /\ pre.nodes[i][2] # NULL
    /\ pc[1] = "idle" /\ ret[1].op = "add_nodes_from"

\* the rows still in a result queue, without Action.END
RowsLeft(q) == LET rs == SelectSeq(q, LAMBDA m : ~m.end)
               IN [i \in 1..Len(rs) |-> rs[i].rec]

\* C16: a caller that lets go of a read after taking none or some of its
\* rows never stalls the worker: whatever the worker has put on a result
\* queue is a complete answer, Action.END included, and once a read has
\* been abandoned every command in the queue is eventually executed.
C16_AbandonedReadNeverStalls ==
    /\ [](\A c \in DOMAIN sent :
             sent[c] = <<>> \/ sent[c][Len(sent[c])].end)
    /\ \A t \in Threads :
          [](gen[t].phase = "dropped" => <>(reqs = <<>>))

\* a thread took one row of a read and let go of it with another row and
\* Action.END still unread, and an add_edge whose COMMIT was queued
\* behind that read has returned
C16_Witness ==
    \E t \in Threads, u \in Threads :
        /\ t # u
        /\ gen[u].phase = "dropped"
        /\ gen[u].rows # <<>>
        /\ gen[u].left >= 2
        /\ u \in waited[t]
        /\ pc[t] = "idle" /\ ret[t].op = "add_edge"

\* the result queues a thread reads: the one of its generator and the one
\* of the select its method waits in
QueuesOf(t) ==
    (IF gen[t].phase = "open" THEN {gen[t].q} ELSE {})
    \cup (IF pc[t] = "recv" THEN {ch[t]} ELSE {})

\* C17: result queues are private to a read: no queue is read by two
\* selects; what a generator has handed out followed by what is left in
\* its queue is exactly what the worker put there for its statement, the
\* rows of that statement in order and one Action.END at the end; and the
\* queue of a commit holds nothing but Action.END.
C17_ResultChannelsPrivate ==
    /\ \A t \in Threads, u \in Threads :
          t # u => QueuesOf(t) \cap QueuesOf(u) = {}
    /\ \A t \in Threads :
          /\ (gen[t].phase = "open" /\ pc[t] = "recv") => gen[t].q # ch[t]
          /\ gen[t].phase = "open" =>
                LET q == gen[t].q
                IN /\ QueuesOf(t) \subseteq DOMAIN chan
                   /\ [i \in 1..Len(gen[t].rows) |-> Row(gen[t].rows[i])]
                          \o chan[q] = sent[q]
                   /\ sent[q] # <<>> =>
                          /\ sent[q] = expect[q]
                          /\ \A i \in 1..Len(sent[q]) :
                                 sent[q][i].end <=> i = Len(sent[q])
          /\ InCommit(t) =>
                /\ got[t] = <<>>
                /\ chan[ch[t]] \in {<<>>, <<END>>}
                /\ sent[ch[t]] = chan[ch[t]]

\* two threads hold generators whose reads were both answered, with
\* different rows, and one of them has been handed a row
C17_Witness ==
    \E t \in Threads, u \in Threads :
        /\ t # u
        /\ gen[t].phase = "open" /\ gen[u].phase = "open"
        /\ gen[t].rows # <<>>
        /\ RowsLeft(sent[gen[t].q]) # RowsLeft(sent[gen[u].q])
        /\ RowsLeft(chan[gen[u].q]) # <<>>

\* C20: a lazy read queues its command at the first next() and not at the
\* call: a generator not yet pulled has no result queue and no command in
\* the queue; the rows it hands out, with those still in its queue, are
\* what its statement returns on the store made by the commands queued
\* before its first next(), whatever is queued afterwards.
C20_LazyReadRunsAtFirstPull ==
    \A t \in Threads :
        /\ gen[t].phase = "new" =>
              /\ gen[t].q = 0
              /\ \A i \in 1..Len(reqs) :
                     (reqs[i].by = t /\ reqs[i].res # 0) =>
                         reqs[i].st.sql = "COMMIT"
        /\ (gen[t].phase = "open" /\ sent[gen[t].q] # <<>>) =>
              gen[t].rows \o RowsLeft(chan[gen[t].q]) = gen[t].at
        /\ gen[t].phase = "done" => gen[t].rows = gen[t].at

\* a generator has handed out a row that was written between the call of
\* the method and the first next(), and another edge written after the
\* first next() is in the store and not among its rows
C20_Witness ==
    \E t \in Threads :
        /\ gen[t].phase = "done"
        /\ gen[t].born = <<>>
        /\ gen[t].rows # <<>>
        /\ gen[t].call.op = "edges"
        /\ Len(edges) > Len(gen[t].rows)

====
